---- MODULE Spec2Model ----
(***************************************************************************)
(* Data synchronisation layer of the dashboard (App.jsx): the polling      *)
(* effect, fetchDashboardData, the LIVE/FALLBACK data source and the four   *)
(* entity collections.                                                     *)
(*                                                                         *)
(* React's contract is taken as given: the state updates one handler or    *)
(* one continuation of fetchDashboardData enqueues are rendered together,  *)
(* and the effects whose dependencies changed (cleanup first, then the new *)
(* effect) run before the next event is handled.  One action is therefore  *)
(* one handler together with the effects its updates trigger.              *)
(*                                                                         *)
(* Four specifications: Spec follows the polling and the store over every  *)
(* outcome of a cycle, for MaxCycles cycles; SpecControls adds the trading *)
(* toggle and the tabs, over two outcomes; SpecRecords follows one record  *)
(* of a response body through the commit and the normalizer of the table   *)
(* that renders it (PositionsTable.jsx, TradesTable.jsx, SignalGrid.jsx);  *)
(* SpecRun lets the view run without end, under fairness.                  *)
(***************************************************************************)
EXTENDS Integers, Sequences, FiniteSets, TLC

VARIABLES
    phase,          \* "constructed" | "mounted" | "unmounted"
    selectedModel,  \* useState('tech')
    dataSource,     \* useState('mock'): 'mock' = FALLBACK, 'live' = LIVE
    performance,    \* { metrics, equityCurve }
    signals,
    trades,
    positions,
    loading,
    effects,        \* one closure of the polling effect per run of it
    inflight,       \* calls of fetchDashboardData suspended at an await
    started,        \* number of calls of fetchDashboardData that passed the entry guard
    lastEvent,      \* the step of the view taken last (history)
    isLive,         \* useState(false): the Live/Paper trading toggle
    activeTab,      \* useState('performance')
    kind,           \* the table a record goes to: "position" | "trade" | "signal"
    record,         \* one raw record of a response body
    stored,         \* that record as the store holds it
    row,            \* what the table's normalizer made of it at render
    renormalized,   \* what the normalizer makes of its own result
    step            \* how far the record has come

controls == <<isLive, activeTab>>

pipeline == <<kind, record, stored, row, renormalized, step>>

view == <<phase, selectedModel, dataSource, performance, signals, trades,
          positions, loading, effects, inflight, started, lastEvent, controls>>

vars == <<view, pipeline>>

store == <<performance, signals, trades, positions>>

----------------------------------------------------------------------------
(* Bounds *)

MaxCycles == 3

\* The cycles suspended at once in the view that runs without end.
MaxInflight == 3

----------------------------------------------------------------------------
(* Constants of the program *)

MODEL_OPTIONS == {"tech", "energy"}

Feeds == {"performance", "signals", "trades", "positions"}

\* The ids of TabSwitcher's tabs.
tabs == {"performance", "signals", "trades"}

\* The metric keys the model follows, out of the sixteen of mockPerformance.metrics.
MetricKeys == {"portfolioValue", "lastUpdated"}

LiveIntervalMin == 5
MockIntervalMin == 15

\* A stored value is named by where it came from: the bundled sample data
\* (cycle 0) or the response to the request of one refresh cycle.
Mock(m) == [src |-> "mock", cycle |-> 0, model |-> m]
Live(c, m) == [src |-> "live", cycle |-> c, model |-> m]

\* A value of a response that is no list of records (a string).
LiveText(c, m) == [src |-> "text", cycle |-> c, model |-> m]

mockPerformance ==
    [metrics |-> [k \in MetricKeys |-> Mock("none")], equityCurve |-> Mock("none")]
mockSignals(m) == Mock(m)
mockTrades == Mock("none")
mockPositions == Mock("none")

----------------------------------------------------------------------------
(* What the backend can answer to one refresh cycle *)

\* A list in a parsed body: an empty list, or a list with records.
ListShapes == {"empty", "list"}

\* What a parsed body can hold in place of a list: nothing (the key is
\* missing), or a value that is no list but has a length (a string).
MalformedShapes == {"missing", "text"}

\* The metrics object of the performance body: missing, some keys, every key.
MetricsShapes == {"absent", "partial", "full"}

\* The keys a metrics object of each shape carries.
metricsKeys(shape) ==
    CASE shape = "absent" -> {}
      [] shape = "partial" -> {"portfolioValue"}
      [] shape = "full" -> MetricKeys

\* The parsed bodies of a cycle whose four retrievals all succeed.
Payloads ==
    [metrics : MetricsShapes,
     lastUpdated : BOOLEAN,      \* a top-level last_updated | lastUpdated
     equityCurve : BOOLEAN,      \* a top-level equity_curve | equityCurve
     signals : ListShapes,
     trades : ListShapes,
     positions : ListShapes]

\* The bodies of the retrievals that did arrive in a cycle that fails.
ArrivedBody ==
    [metrics |-> "full", lastUpdated |-> TRUE, equityCurve |-> TRUE,
     signals |-> "list", trades |-> "list", positions |-> "list"]

\* The bodies in which one of the three lists is malformed and all else arrived whole.
MalformedBodies ==
    {[ArrivedBody EXCEPT ![f] = sh] :
        f \in {"signals", "trades", "positions"}, sh \in MalformedShapes}

\* The error that ends a failing cycle: fetch rejects, a status is not ok
\* (line 85), or json() rejects.
Errors == {"reject", "status", "parse"}

\* What the awaits of lines 78-92 can produce for one cycle: the retrievals
\* that did not succeed, the error thrown for them, and the parsed bodies.
Outcomes ==
    {[failed |-> {}, error |-> "none", body |-> p] : p \in Payloads \cup MalformedBodies}
    \cup {[failed |-> f, error |-> e, body |-> ArrivedBody] :
            f \in (SUBSET Feeds) \ {{}}, e \in Errors}

NoOutcome == [failed |-> {}, error |-> "none", body |-> ArrivedBody]

\* One outcome of each branch: all four bodies arrive whole, or the trades
\* retrieval answers with a status that is not ok.
ControlOutcomes ==
    {NoOutcome, [failed |-> {"trades"}, error |-> "status", body |-> ArrivedBody]}

\* The step taken last: its kind, the cycle it started or settled, the effect
\* closure it ran in, and the outcome it settled with.
Event(k, c, e, o) == [kind |-> k, cycle |-> c, effect |-> e, outcome |-> o]

\* Of the outcome of a cycle that settles after its cleanup only the error is
\* recorded: the code reads nothing else of it.
ErrorOnly(o) == [failed |-> {}, error |-> o.error, body |-> ArrivedBody]

----------------------------------------------------------------------------
(* The polling effect, App.jsx lines 69-139 *)

\* Mutation: the two periods swapped.
intervalMsInverted(ds) == IF ds = "live" THEN MockIntervalMin ELSE LiveIntervalMin

\* const intervalMs = dataSource === 'live' ? 1000 * 60 * 5 : 1000 * 60 * 15;
intervalMs(ds) == IF ds = "live" THEN LiveIntervalMin ELSE MockIntervalMin

\* Mutation: a cleanup that clears the timer and leaves isMounted set.
cleanupTimerOnly(effs) ==
    [i \in DOMAIN effs |-> [effs[i] EXCEPT !.timerArmed = FALSE]]

\* The cleanup of every effect run so far: isMounted = false; clearInterval(refreshInterval)
cleanup(effs) ==
    [i \in DOMAIN effs |-> [effs[i] EXCEPT !.isMounted = FALSE, !.timerArmed = FALSE]]

\* A run of the effect body with the render's selectedModel and dataSource:
\* let isMounted = true; fetchDashboardData(); setInterval(fetchDashboardData, intervalMs)
newEffect(m, ds) ==
    [isMounted |-> TRUE, timerArmed |-> TRUE, selectedModel |-> m, intervalMs |-> intervalMs(ds)]

\* The cycle a call of fetchDashboardData starts in the closure of effect e.
newCycle(e) == [id |-> started + 1, effect |-> e]

\* The effect re-runs: cleanup of the previous run, then a new closure whose
\* body calls fetchDashboardData at once (setLoading(true), the four fetches).
\* rest: the cycles still suspended.
restartEffect(m, ds, rest) ==
    /\ started < MaxCycles
    /\ effects' = Append(cleanup(effects), newEffect(m, ds))
    /\ inflight' = rest \cup {newCycle(Len(effects) + 1)}
    /\ started' = started + 1
    /\ loading' = TRUE

\* Mutation: a model change that leaves the signals as they are.
resetSignalsKept(m) == signals

\* The effect of lines 141-144: signals := copy of mockSignals[selectedModel]
resetSignals(m) == mockSignals(m)

----------------------------------------------------------------------------
(* fetchDashboardData, lines 73-128 *)

\* Mutation: the body's metrics laid over the metrics now in the store.
mergeMetricsOverCurrent(c, body) ==
    [k \in MetricKeys |->
        IF k = "lastUpdated" /\ body.lastUpdated THEN Live(c, "none")
        ELSE IF k \in metricsKeys(body.metrics) THEN Live(c, "none")
        ELSE performance.metrics[k]]

\* A key a record does not have.
Absent == [src |-> "absent", cycle |-> 0, model |-> "none"]

\* Mutation: the body's metrics object alone, without the spread of
\* mockPerformance.metrics under it.
mergeMetricsWithoutBaseline(c, body) ==
    [k \in MetricKeys |->
        IF k = "lastUpdated" /\ body.lastUpdated THEN Live(c, "none")
        ELSE IF k \in metricsKeys(body.metrics) THEN Live(c, "none")
        ELSE Absent]

\* lines 96-102: mockPerformance.metrics, overlaid with the body's metrics and
\* with its top-level last_updated | lastUpdated
mergeMetrics(c, body) ==
    [k \in MetricKeys |->
        IF k = "lastUpdated" /\ body.lastUpdated THEN Live(c, "none")
        ELSE IF k \in metricsKeys(body.metrics) THEN Live(c, "none")
        ELSE mockPerformance.metrics[k]]

\* Mutation: the body's equity curve is never used.
pickEquityCurveAlwaysMock(c, body) == mockPerformance.equityCurve

\* lines 103-104
pickEquityCurve(c, body) ==
    IF body.equityCurve THEN Live(c, "none") ELSE mockPerformance.equityCurve

\* x?.length is truthy: x is a list with records or a string with characters.
hasLength(shape) == shape \in {"list", "text"}

\* The value x of a response, as the store would hold it.
received(c, m, shape) == IF shape = "text" THEN LiveText(c, m) ELSE Live(c, m)

\* lines 107-110: x?.length ? x : fallback
pickSignals(c, m, body) ==
    IF hasLength(body.signals) THEN received(c, m, body.signals) ELSE mockSignals(m)
pickTrades(c, body) ==
    IF hasLength(body.trades) THEN received(c, "none", body.trades) ELSE mockTrades
pickPositions(c, body) ==
    IF hasLength(body.positions) THEN received(c, "none", body.positions) ELSE mockPositions

\* Mutation: no isMounted guard.
isMountedAlways(e) == TRUE

\* if (!isMounted) return;   (lines 74, 94, 113, 124)
isMounted(e) == effects[e].isMounted

\* What the effect of lines 69-139 does after a commit rendered dataSource ds:
\* nothing when ds is the value it ran with, a re-run otherwise.  Without a
\* re-run the finally block's setLoading(false) stands.
afterCommit(c, ds) ==
    IF ds # dataSource
    THEN restartEffect(selectedModel, ds, inflight \ {c})
    ELSE /\ inflight' = inflight \ {c}
         /\ loading' = FALSE
         /\ UNCHANGED <<effects, started>>

\* A timer tick or an effect body calls fetchDashboardData in the closure of
\* effect e: the entry guard, setLoading(true), the four fetches are issued.
startCycle(e) ==
    /\ started < MaxCycles
    /\ isMounted(e)
    /\ inflight' = inflight \cup {newCycle(e)}
    /\ started' = started + 1
    /\ loading' = TRUE

\* Mutation: the cycle fails only when every retrieval failed.
throwsErrorWhenAllFail(o) == o.failed = Feeds

\* Lines 78-92 throw: Promise.all rejects when a fetch rejects, line 85 throws
\* when a status is not ok, an await of json() throws when a body does not parse.
throwsError(o) == o.failed # {}

\* What the success branch writes, lines 96-111, for cycle c of a closure with model m.
liveStore(c, m, body) ==
    [performance |-> [metrics |-> mergeMetrics(c, body),
                      equityCurve |-> pickEquityCurve(c, body)],
     signals |-> pickSignals(c, m, body),
     trades |-> pickTrades(c, body),
     positions |-> pickPositions(c, body),
     dataSource |-> "live"]

\* Mutation: a catch branch without setDataSource('mock').
mockStoreKeepsSource(m) ==
    [performance |-> mockPerformance,
     signals |-> mockSignals(m),
     trades |-> mockTrades,
     positions |-> mockPositions,
     dataSource |-> dataSource]

\* Mutation: a catch branch without setTrades.
mockStoreStaleTrades(m) ==
    [performance |-> mockPerformance,
     signals |-> mockSignals(m),
     trades |-> trades,
     positions |-> mockPositions,
     dataSource |-> "mock"]

\* What the catch branch writes, lines 114-122.
mockStore(m) ==
    [performance |-> mockPerformance,
     signals |-> mockSignals(m),
     trades |-> mockTrades,
     positions |-> mockPositions,
     dataSource |-> "mock"]

\* The batch of state updates of one branch, the finally block, and the
\* effects of the render that follows.
commit(c, w) ==
    /\ performance' = w.performance
    /\ signals' = w.signals
    /\ trades' = w.trades
    /\ positions' = w.positions
    /\ dataSource' = w.dataSource
    /\ afterCommit(c, w.dataSource)

\* The view mounts: both effects run for the first time.
Mount ==
    /\ phase = "constructed"
    /\ phase' = "mounted"
    /\ restartEffect(selectedModel, dataSource, inflight)
    /\ signals' = resetSignals(selectedModel)
    /\ lastEvent' = Event("mount", started + 1, Len(effects) + 1, NoOutcome)
    /\ UNCHANGED <<selectedModel, dataSource, performance, trades, positions>>
    /\ UNCHANGED <<controls, pipeline>>

\* The view unmounts: the cleanup of line 135 runs.
Unmount ==
    /\ phase = "mounted"
    /\ phase' = "unmounted"
    /\ effects' = cleanup(effects)
    /\ lastEvent' = Event("unmount", 0, 0, NoOutcome)
    /\ UNCHANGED <<selectedModel, dataSource, store, loading, inflight, started>>
    /\ UNCHANGED <<controls, pipeline>>

\* onChange of the model select (line 233): setSelectedModel(m).  Both effects
\* depend on selectedModel and re-run.
SelectModel(m) ==
    /\ phase = "mounted"
    /\ m # selectedModel
    /\ selectedModel' = m
    /\ restartEffect(m, dataSource, inflight)
    /\ signals' = resetSignals(m)
    /\ lastEvent' = Event("select", started + 1, Len(effects) + 1, NoOutcome)
    /\ UNCHANGED <<phase, dataSource, performance, trades, positions>>
    /\ UNCHANGED <<controls, pipeline>>

\* The interval timer of effect e fires (line 133).
TimerTick(e) ==
    /\ effects[e].timerArmed
    /\ startCycle(e)
    /\ lastEvent' = Event("tick", started + 1, e, NoOutcome)
    /\ UNCHANGED <<phase, selectedModel, dataSource, store, effects>>
    /\ UNCHANGED <<controls, pipeline>>

\* The awaits of cycle c settle without an error and the effect is still
\* mounted: the success branch, lines 94-111, then finally.
FetchCommitLive(c, o) ==
    /\ isMounted(c.effect)
    /\ ~throwsError(o)
    /\ commit(c, liveStore(c.id, effects[c.effect].selectedModel, o.body))
    /\ lastEvent' = Event("commit", c.id, c.effect, o)
    /\ UNCHANGED <<phase, selectedModel>>
    /\ UNCHANGED <<controls, pipeline>>

\* The awaits of cycle c throw and the effect is still mounted: the catch
\* branch, lines 112-122, then finally.
FetchCommitMock(c, o) ==
    /\ isMounted(c.effect)
    /\ throwsError(o)
    /\ commit(c, mockStore(effects[c.effect].selectedModel))
    /\ lastEvent' = Event("commit", c.id, c.effect, o)
    /\ UNCHANGED <<phase, selectedModel>>
    /\ UNCHANGED <<controls, pipeline>>

\* The awaits of cycle c settle after the cleanup of its effect: the success
\* branch returns at line 94, the catch branch at line 113, and finally
\* writes nothing.
FetchStale(c, o) ==
    /\ ~isMounted(c.effect)
    /\ inflight' = inflight \ {c}
    /\ lastEvent' = Event("discard", c.id, c.effect, ErrorOnly(o))
    /\ UNCHANGED <<phase, selectedModel, dataSource, store, loading, effects, started>>
    /\ UNCHANGED <<controls, pipeline>>

\* Mutation: a toggle that re-runs the polling effect, as if isLive were one
\* of its dependencies.
ToggleModeRestartsEffect ==
    /\ phase = "mounted"
    /\ isLive' = ~isLive
    /\ restartEffect(selectedModel, dataSource, inflight)
    /\ lastEvent' = Event("toggle", 0, 0, NoOutcome)
    /\ UNCHANGED <<phase, selectedModel, dataSource, store, activeTab, pipeline>>

\* onClick of the Live/Paper trading switch (line 227): setIsLive((v) => !v).
\* isLive is no dependency of either effect.
ToggleMode ==
    /\ phase = "mounted"
    /\ isLive' = ~isLive
    /\ lastEvent' = Event("toggle", 0, 0, NoOutcome)
    /\ UNCHANGED <<phase, selectedModel, dataSource, store, loading, effects,
                   inflight, started, activeTab, pipeline>>

\* onClick of a tab button (TabSwitcher, line 257): setActiveTab(t).
SwitchTab(t) ==
    /\ phase = "mounted"
    /\ activeTab' = t
    /\ lastEvent' = Event("tab", 0, 0, NoOutcome)
    /\ UNCHANGED <<phase, selectedModel, dataSource, store, loading, effects,
                   inflight, started, isLive, pipeline>>

----------------------------------------------------------------------------

\* The view after construction: the useState initial values of lines 56-67.
InitView ==
    /\ phase = "constructed"
    /\ selectedModel = "tech"
    /\ dataSource = "mock"
    /\ performance = mockPerformance
    /\ signals = mockSignals("tech")
    /\ trades = mockTrades
    /\ positions = mockPositions
    /\ loading = FALSE
    /\ effects = <<>>
    /\ inflight = {}
    /\ started = 0
    /\ lastEvent = Event("init", 0, 0, NoOutcome)
    /\ isLive = FALSE
    /\ activeTab = "performance"

Init ==
    /\ InitView
    /\ kind = "none"
    /\ record = <<>>
    /\ stored = <<>>
    /\ row = <<>>
    /\ renormalized = <<>>
    /\ step = "idle"

Next ==
    \/ Mount
    \/ Unmount
    \/ \E m \in MODEL_OPTIONS : SelectModel(m)
    \/ \E e \in DOMAIN effects : TimerTick(e)
    \/ \E c \in inflight, o \in Outcomes : FetchCommitLive(c, o)
    \/ \E c \in inflight, o \in Outcomes : FetchCommitMock(c, o)
    \/ \E c \in inflight, o \in Outcomes : FetchStale(c, o)

Spec == Init /\ [][Next]_vars

\* The view with its two other controls, the toggle and the tabs, over
\* ControlOutcomes: a cycle that succeeds and a cycle that fails.
NextControls ==
    \/ Mount
    \/ Unmount
    \/ \E m \in MODEL_OPTIONS : SelectModel(m)
    \/ \E e \in DOMAIN effects : TimerTick(e)
    \/ \E c \in inflight, o \in ControlOutcomes : FetchCommitLive(c, o)
    \/ \E c \in inflight, o \in ControlOutcomes : FetchCommitMock(c, o)
    \/ \E c \in inflight, o \in ControlOutcomes : FetchStale(c, o)
    \/ ToggleMode
    \/ \E t \in tabs : SwitchTab(t)

SpecControls == Init /\ [][NextControls]_vars

----------------------------------------------------------------------------
(* The view running without end.  The same handlers as above, with the ids  *)
(* of settled cycles given up for reuse and the closures that were cleaned  *)
(* up held as one, so that a poller may tick for ever.  MaxInflight bounds  *)
(* the cycles suspended at once, not the cycles started (started stays 0),  *)
(* and neither a stored value nor lastEvent names the cycle it came from.   *)

\* The smallest id no suspended cycle has.
freeId(cycles) ==
    CHOOSE i \in 1..MaxInflight :
        /\ \A c \in cycles : c.id # i
        /\ \A j \in 1..(i - 1) : \E c \in cycles : c.id = j

\* Of the closures only the newest two are kept: a suspended cycle of a
\* closure that was cleaned up reads nothing of it but isMounted (lines 94,
\* 113, 124), which is false in every such closure, so it is handed to the
\* newest of them.
newestTwo(effs) ==
    IF Len(effs) <= 2 THEN effs ELSE <<effs[Len(effs) - 1], effs[Len(effs)]>>

handOver(effs, cycles) ==
    {[id |-> c.id,
      effect |-> IF Len(effs) <= 2 THEN c.effect
                 ELSE IF c.effect = Len(effs) THEN 2 ELSE 1] : c \in cycles}

\* restartEffect: cleanup of the previous run, then a new closure whose body
\* calls fetchDashboardData at once.
runRestartEffect(m, ds, rest) ==
    LET effs == Append(cleanup(effects), newEffect(m, ds))
        cycles == rest \cup {[id |-> freeId(rest), effect |-> Len(effs)]}
    IN  /\ Cardinality(rest) < MaxInflight
        /\ effects' = newestTwo(effs)
        /\ inflight' = handOver(effs, cycles)
        /\ loading' = TRUE
        /\ UNCHANGED started

\* Mutation: a call of fetchDashboardData that issues no fetch.
runStartCycleWithoutFetch(e) ==
    /\ isMounted(e)
    /\ loading' = TRUE
    /\ UNCHANGED <<inflight, started>>

\* startCycle: the entry guard, setLoading(true), the four fetches are issued.
runStartCycle(e) ==
    /\ Cardinality(inflight) < MaxInflight
    /\ isMounted(e)
    /\ inflight' = inflight \cup {[id |-> freeId(inflight), effect |-> e]}
    /\ loading' = TRUE
    /\ UNCHANGED started

\* afterCommit
runAfterCommit(c, ds) ==
    IF ds # dataSource
    THEN runRestartEffect(selectedModel, ds, inflight \ {c})
    ELSE /\ inflight' = inflight \ {c}
         /\ loading' = FALSE
         /\ UNCHANGED <<effects, started>>

\* commit
runCommit(c, w) ==
    /\ performance' = w.performance
    /\ signals' = w.signals
    /\ trades' = w.trades
    /\ positions' = w.positions
    /\ dataSource' = w.dataSource
    /\ runAfterCommit(c, w.dataSource)

RunMount ==
    /\ phase = "constructed"
    /\ phase' = "mounted"
    /\ runRestartEffect(selectedModel, dataSource, inflight)
    /\ signals' = resetSignals(selectedModel)
    /\ lastEvent' = Event("mount", 0, 0, NoOutcome)
    /\ UNCHANGED <<selectedModel, dataSource, performance, trades, positions>>
    /\ UNCHANGED <<controls, pipeline>>

RunSelectModel(m) ==
    /\ phase = "mounted"
    /\ m # selectedModel
    /\ selectedModel' = m
    /\ runRestartEffect(m, dataSource, inflight)
    /\ signals' = resetSignals(m)
    /\ lastEvent' = Event("select", 0, 0, NoOutcome)
    /\ UNCHANGED <<phase, dataSource, performance, trades, positions>>
    /\ UNCHANGED <<controls, pipeline>>

RunTimerTick(e) ==
    /\ effects[e].timerArmed
    /\ runStartCycle(e)
    /\ lastEvent' = Event("tick", 0, 0, NoOutcome)
    /\ UNCHANGED <<phase, selectedModel, dataSource, store, effects>>
    /\ UNCHANGED <<controls, pipeline>>

RunFetchCommitLive(c, o) ==
    /\ isMounted(c.effect)
    /\ ~throwsError(o)
    /\ runCommit(c, liveStore(0, effects[c.effect].selectedModel, o.body))
    /\ lastEvent' = Event("commit", 0, 0, o)
    /\ UNCHANGED <<phase, selectedModel>>
    /\ UNCHANGED <<controls, pipeline>>

RunFetchCommitMock(c, o) ==
    /\ isMounted(c.effect)
    /\ throwsError(o)
    /\ runCommit(c, mockStore(effects[c.effect].selectedModel))
    /\ lastEvent' = Event("commit", 0, 0, o)
    /\ UNCHANGED <<phase, selectedModel>>
    /\ UNCHANGED <<controls, pipeline>>

RunFetchStale(c, o) ==
    /\ ~isMounted(c.effect)
    /\ inflight' = inflight \ {c}
    /\ lastEvent' = Event("discard", 0, 0, ErrorOnly(o))
    /\ UNCHANGED <<phase, selectedModel, dataSource, store, loading, effects, started>>
    /\ UNCHANGED <<controls, pipeline>>

\* The awaits of suspended cycle c settle, in whichever branch.
Settle(c) ==
    /\ c \in inflight
    /\ \E o \in ControlOutcomes :
          \/ RunFetchCommitLive(c, o)
          \/ RunFetchCommitMock(c, o)
          \/ RunFetchStale(c, o)

\* The suspended cycles there can be.
Cycles == [id : 1..MaxInflight, effect : 1..2]

NextRun ==
    \/ RunMount
    \/ Unmount
    \/ \E m \in MODEL_OPTIONS : RunSelectModel(m)
    \/ \E e \in DOMAIN effects : RunTimerTick(e)
    \/ \E c \in inflight, o \in ControlOutcomes : RunFetchCommitLive(c, o)
    \/ \E c \in inflight, o \in ControlOutcomes : RunFetchCommitMock(c, o)
    \/ \E c \in inflight, o \in ControlOutcomes : RunFetchStale(c, o)

\* The browser runs the effects of a view it rendered, fires the interval
\* timer of a poller again and again as long as it is armed (strong fairness:
\* the timer does not wait for a suspended cycle, only the model does, when
\* MaxInflight cycles are suspended), and settles every fetch.
SpecRun ==
    /\ Init
    /\ [][NextRun]_vars
    /\ WF_vars(RunMount)
    /\ SF_vars(\E e \in DOMAIN effects : RunTimerTick(e))
    /\ \A c \in Cycles : WF_vars(Settle(c))

----------------------------------------------------------------------------
(* The values of a record of a response body, and the operations of        *)
(* JavaScript the normalizers apply to them.  A number is held exactly, in  *)
(* ten-thousandths (0.82 is 8200); the rounding of IEEE doubles is left out. *)

Value(t, n, s, of) == [t |-> t, n |-> n, s |-> s, of |-> of]

Undefined == Value("undefined", 0, "", <<>>)
Null == Value("null", 0, "", <<>>)
NaN == Value("nan", 0, "", <<>>)
Num(n) == Value("number", n, "", <<>>)
Str(s) == Value("string", 0, s, <<>>)

\* The template literal `${a}-${b}` of normalizeTrade, named by its two parts.
Template(a, b) == Value("template", 0, "", <<a, b>>)

\* The literal 1 the scale rule compares with, in ten-thousandths.
one == 10000

\* What JSON can carry for a field: null, numbers and strings.  The numbers
\* are 0, 0.0312, 0.82, 1, 3.12, 82, 150, -0.82 and -82.
JsonValues ==
    {Null, Str("buy"), Str("Sell"), Str("hold"), Str("short"), Str("AAPL")}
    \cup {Num(n) : n \in {0, 312, 8200, 10000, 31200, 820000, 1500000, -8200, -820000}}

\* The values of the second field of a record: the number 100 and a string.
OtherValues == {Num(1000000), Str("buy")}

\* a ?? b: a is null or undefined
nullish(v) == v.t \in {"undefined", "null"}

\* Mutation: only the first key of the chain is read.
coalesceFirstKeyOnly(r, keys, default) ==
    IF nullish(r[keys[1]]) THEN default ELSE r[keys[1]]

\* r.k1 ?? r.k2 ?? ... ?? default
coalesce(r, keys, default) ==
    IF \A i \in DOMAIN keys : nullish(r[keys[i]])
    THEN default
    ELSE r[keys[CHOOSE i \in DOMAIN keys :
                    /\ ~nullish(r[keys[i]])
                    /\ \A j \in 1..(i - 1) : nullish(r[keys[j]])]]

\* Number(v): null and the empty string give 0, any other string of the
\* model (none is numeric) and undefined give NaN.
Number(v) ==
    CASE v.t = "number" -> v
      [] v.t = "null" -> Num(0)
      [] v.t = "string" /\ v.s = "" -> Num(0)
      [] OTHER -> NaN

\* Number.isFinite(v), v the result of Number
isFinite(v) == v.t = "number"

\* Number.isFinite(v) ? v : default
finiteOr(v, default) == IF isFinite(v) THEN v ELSE default

\* a || b for numbers: 0 and NaN are falsy
orElse(a, b) == IF a.t = "number" /\ a.n # 0 THEN a ELSE b

\* Math.abs(v) > 1
absExceedsOne(v) == v.t = "number" /\ (v.n > one \/ v.n < -one)

\* v > 1 (false for NaN)
exceedsOne(v) == v.t = "number" /\ v.n > one

\* v * 100 and v / 100 (NaN stays NaN)
times100(v) == IF v.t = "number" THEN Num(v.n * 100) ELSE v
over100(v) == IF v.t = "number" THEN Num(v.n \div 100) ELSE v

\* s.toUpperCase() for the strings of the model
\* Mutation: the string is kept in the case it arrived in.
upperKeepsCase(s) == s

upper(s) ==
    CASE s = "buy" -> "BUY"
      [] s = "Sell" -> "SELL"
      [] s = "hold" -> "HOLD"
      [] s = "short" -> "SHORT"
      [] OTHER -> s     \* "AAPL", "HOLD": no lower-case letter

\* What a normalizer call ends with: a record, or a TypeError.
Returned(r) == [thrown |-> FALSE, value |-> r]
Thrown == [thrown |-> TRUE, value |-> <<>>]

----------------------------------------------------------------------------
(* The three normalizers.  A record is a function from the keys its         *)
(* normalizer reads or writes to values, Undefined for a key it lacks.      *)

Kinds == {"position", "trade", "signal"}

\* The keys normalizePosition reads, and pnlPercent, which it writes.
PositionKeys ==
    {"symbol", "ticker", "asset", "quantity", "qty", "shares",
     "averagePrice", "avg_price", "avgEntryPrice", "avg_entry_price",
     "marketPrice", "current_price", "currentPrice", "market_price",
     "unrealizedPnl", "unrealized_pl", "pnl",
     "unrealizedPnlPercent", "unrealized_plpc", "unrealized_pl_percent", "pnl_percent",
     "pnlPercent"}

TradeKeys ==
    {"side", "action", "type", "quantity", "qty", "shares",
     "price", "fill_price", "filled_avg_price", "pnl", "profit", "realized_pl",
     "id", "trade_id", "order_id", "timestamp", "filled_at", "created_at",
     "symbol", "ticker", "model", "strategy"}

SignalKeys ==
    {"confidence", "score", "signal_strength", "positionSize", "weight", "position_size",
     "symbol", "ticker", "action", "side", "thesis", "reason", "notes"}

Keys(k) ==
    CASE k = "position" -> PositionKeys
      [] k = "trade" -> TradeKeys
      [] k = "signal" -> SignalKeys

\* The placeholder of a missing symbol (an em dash in the source).
placeholder == Str("(dash)")

\* The record with the given fields and no other key.
Object(keys, fields) ==
    [k \in keys |-> IF k \in DOMAIN fields THEN fields[k] ELSE Undefined]

normalizePosition(position) ==
    LET quantityRaw == Number(coalesce(position, <<"quantity", "qty", "shares">>, Num(0)))
        averagePrice ==
            Number(coalesce(position,
                <<"averagePrice", "avg_price", "avgEntryPrice", "avg_entry_price">>, Num(0)))
        marketPrice ==
            Number(coalesce(position,
                <<"marketPrice", "current_price", "currentPrice", "market_price">>, Num(0)))
        pnlRaw ==
            Number(coalesce(position,
                <<"unrealizedPnl", "unrealized_pl", "unrealized_pl", "pnl">>, Num(0)))
        pnlPercentRaw ==
            Number(coalesce(position,
                <<"unrealizedPnlPercent", "unrealized_plpc", "unrealized_pl_percent",
                  "pnl_percent">>, Num(0)))
        pnlPercent ==
            IF isFinite(pnlPercentRaw)
            THEN IF absExceedsOne(pnlPercentRaw) THEN pnlPercentRaw ELSE times100(pnlPercentRaw)
            ELSE Num(0)
        quantity == finiteOr(quantityRaw, Num(0))
        avg == orElse(averagePrice, marketPrice)
        last == orElse(marketPrice, averagePrice)
        avgSafe == finiteOr(avg, Num(0))
        lastSafe == finiteOr(last, Num(0))
    IN  Returned(Object(PositionKeys,
            [symbol |-> coalesce(position, <<"symbol", "ticker", "asset">>, placeholder),
             quantity |-> quantity,
             averagePrice |-> avgSafe,
             marketPrice |-> lastSafe,
             pnl |-> finiteOr(pnlRaw, Num(0)),
             pnlPercent |-> pnlPercent]))

normalizeTrade(trade) ==
    LET side == coalesce(trade, <<"side", "action", "type">>, Str("HOLD"))
        quantity == Number(coalesce(trade, <<"quantity", "qty", "shares">>, Num(0)))
        priceRaw == Number(coalesce(trade, <<"price", "fill_price", "filled_avg_price">>, Num(0)))
        pnl == Number(coalesce(trade, <<"pnl", "profit", "realized_pl">>, Num(0)))
        id == coalesce(trade, <<"id", "trade_id", "order_id">>,
                       Template(trade["symbol"], trade["timestamp"]))
    IN  IF side.t # "string"
        THEN Thrown     \* side.toUpperCase is not a function
        ELSE Returned(Object(TradeKeys,
                [id |-> id,
                 timestamp |-> coalesce(trade, <<"timestamp", "filled_at", "created_at">>, Null),
                 symbol |-> coalesce(trade, <<"symbol", "ticker">>, placeholder),
                 side |-> Str(upper(side.s)),
                 quantity |-> finiteOr(quantity, Num(0)),
                 price |-> finiteOr(priceRaw, Num(0)),
                 pnl |-> finiteOr(pnl, Num(0)),
                 model |-> coalesce(trade, <<"model", "strategy">>, Str("AI Agent"))]))

normalizeSignal(signal) ==
    LET confidenceRaw ==
            Number(coalesce(signal, <<"confidence", "score", "signal_strength">>, Num(0)))
        positionSizeRaw ==
            Number(coalesce(signal, <<"positionSize", "weight", "position_size">>, Num(0)))
        confidence == IF exceedsOne(confidenceRaw) THEN over100(confidenceRaw) ELSE confidenceRaw
        positionSize ==
            IF exceedsOne(positionSizeRaw) THEN over100(positionSizeRaw) ELSE positionSizeRaw
        action == coalesce(signal, <<"action", "side">>, Str("HOLD"))
    IN  IF action.t # "string"
        THEN Thrown     \* (...).toUpperCase is not a function
        ELSE Returned(Object(SignalKeys,
                [symbol |-> coalesce(signal, <<"symbol", "ticker">>, placeholder),
                 action |-> Str(upper(action.s)),
                 confidence |-> confidence,
                 positionSize |-> positionSize,
                 thesis |-> coalesce(signal, <<"thesis", "reason", "notes">>,
                                     Str("Signal details unavailable."))]))

\* The normalizer of the table a record of kind k goes to.
normalize(k, r) ==
    CASE k = "position" -> normalizePosition(r)
      [] k = "trade" -> normalizeTrade(r)
      [] k = "signal" -> normalizeSignal(r)

----------------------------------------------------------------------------
(* One record on its way from a response body to a table row:               *)
(* fetchDashboardData stores the list it received (lines 108-110), and the  *)
(* table normalizes each record of the stored list when it renders.         *)

EmptyObject(k) == Object(Keys(k), <<>>)

\* Positions as the brokerage reports them: a symbol, a quantity of 50 and
\* the two prices (178.5 and 182.25, or 0), each under one of its keys, and
\* no P&L.
ReportedPositions ==
    {[EmptyObject("position") EXCEPT ![s] = Str("AAPL"), ![q] = Num(500000),
                                      ![a] = Num(avg), ![m] = Num(last)] :
        s \in {"symbol", "ticker", "asset"},
        q \in {"quantity", "qty", "shares"},
        a \in {"averagePrice", "avg_price", "avgEntryPrice", "avg_entry_price"},
        m \in {"marketPrice", "current_price", "currentPrice", "market_price"},
        avg \in {0, 1785000}, last \in {0, 1822500}}

\* The raw records followed: no field, one field, one field and a second
\* one with a value of OtherValues, and the reported positions.
RawRecords(k) ==
    {EmptyObject(k)}
    \cup {[EmptyObject(k) EXCEPT ![a] = v] : a \in Keys(k), v \in JsonValues}
    \cup {[EmptyObject(k) EXCEPT ![p[1]] = v, ![p[2]] = w] :
            p \in {q \in Keys(k) \X Keys(k) : q[1] # q[2]},
            v \in JsonValues, w \in OtherValues}
    \cup (IF k = "position" THEN ReportedPositions ELSE {})

\* Mutation: the record is normalized before it is stored.
storedAsNormalized(k, r) == normalize(k, r).value

\* setSignals(signalsJson.signals), setTrades(tradesJson.trades),
\* setPositions(positionsJson.positions): the list is stored as received.
storedAs(k, r) == r

\* The success branch commits the list the record is in.
CommitRecord ==
    /\ step = "received"
    /\ stored' = storedAs(kind, record)
    /\ step' = "committed"
    /\ UNCHANGED <<view, kind, record, row, renormalized>>

\* The table renders: (list ?? []).map(normalize...)
RenderRecord ==
    /\ step = "committed"
    /\ row' = normalize(kind, stored)
    /\ step' = "rendered"
    /\ UNCHANGED <<view, kind, record, stored, renormalized>>

\* The normalizer applied to the record it returned.
NormalizeAgain ==
    /\ step = "rendered"
    /\ ~row.thrown
    /\ renormalized' = normalize(kind, row.value)
    /\ step' = "normalizedAgain"
    /\ UNCHANGED <<view, kind, record, stored, row>>

InitRecords ==
    /\ InitView
    /\ kind \in Kinds
    /\ record \in RawRecords(kind)
    /\ stored = <<>>
    /\ row = <<>>
    /\ renormalized = <<>>
    /\ step = "received"

NextRecords ==
    \/ CommitRecord
    \/ RenderRecord
    \/ NormalizeAgain

SpecRecords == InitRecords /\ [][NextRecords]_vars

----------------------------------------------------------------------------
(* Vocabulary of the properties *)

\* The store holds exactly the bundled sample data, signals being those of model m.
IsBaseline(m) ==
    /\ performance = mockPerformance
    /\ signals = mockSignals(m)
    /\ trades = mockTrades
    /\ positions = mockPositions

\* The values the store holds, metrics key by key.
StoredValues ==
    {performance.metrics[k] : k \in MetricKeys}
    \cup {performance.equityCurve, signals, trades, positions}

\* The last step was the commit of a refresh cycle (of either branch).
Committed == lastEvent.kind = "commit"
CommittedLive == Committed /\ lastEvent.outcome.failed = {}
CommittedMock == Committed /\ lastEvent.outcome.failed # {}

\* The last step re-ran the polling effect and so started the newest cycle.
RestartedEffect ==
    /\ Len(effects) > 0
    /\ \E c \in inflight : c.id = started /\ c.effect = Len(effects)
    /\ lastEvent.cycle # started

\* The model selection changed after effect e was created: some later run of
\* the effect closed over another model than the run before it.
SelectedSince(e) ==
    \E j \in (e + 1)..Len(effects) : effects[j].selectedModel # effects[j - 1].selectedModel

----------------------------------------------------------------------------
(* C1: when a refresh cycle settles with at least one of the four retrievals *)
(* failed (whether one, some or all of them), the step that commits it      *)
(* leaves the state FALLBACK and the store wholly the baseline: no value of *)
(* that cycle is in the store, whatever did arrive.                         *)
C1_AllOrNothing ==
    CommittedMock =>
        /\ dataSource = "mock"
        /\ IsBaseline(selectedModel)
        /\ \A v \in StoredValues : v.cycle # lastEvent.cycle

\* Three of the four retrievals succeeded, one failed, and the cycle was committed.
C1_Witness ==
    /\ CommittedMock
    /\ Cardinality(lastEvent.outcome.failed) = 1
    /\ lastEvent.outcome.error = "status"

(* C2: a cycle that was started before the model selection changed writes   *)
(* nothing when it settles: the step in which it leaves the set of cycles   *)
(* in flight changes none of performance, signals, trades, positions and    *)
(* the LIVE/FALLBACK state.                                                 *)
C2_StaleCycleGuard ==
    [][\A c \in inflight :
          (SelectedSince(c.effect) /\ c \notin inflight')
              => UNCHANGED <<performance, signals, trades, positions, dataSource>>]_vars

\* A cycle started under one model settled, successfully, after another model
\* was selected, while the store held that other model's data.
C2_Witness ==
    /\ lastEvent.kind = "discard"
    /\ lastEvent.outcome.error = "none"
    /\ SelectedSince(lastEvent.effect)
    /\ effects[lastEvent.effect].selectedModel # selectedModel

(* C3: the state starts as FALLBACK ('mock'); only the commit of a refresh  *)
(* cycle changes it; and after every commit it is LIVE exactly when that    *)
(* cycle settled without any failed retrieval.                              *)
C3_StateMachine ==
    /\ dataSource = "mock"
    /\ [][/\ dataSource' # dataSource => lastEvent'.kind = "commit"
          /\ lastEvent'.kind = "commit" =>
                (dataSource' = "live" <=> lastEvent'.outcome.failed = {})]_vars

\* A LIVE -> FALLBACK transition: a failing commit that changed the state
\* (and so re-ran the effect).
C3_Witness ==
    /\ CommittedMock
    /\ RestartedEffect
    /\ dataSource = "mock"

(* C4: whenever the state is FALLBACK the store is exactly the baseline     *)
(* dataset, signals being the baseline signals of the selected model.       *)
C4_FallbackIsBaseline ==
    dataSource = "mock" => IsBaseline(selectedModel)

\* Two consecutive cycles of the first poller were committed as failures, the
\* second with all four retrievals failed.
C4_Witness ==
    /\ phase = "mounted"
    /\ dataSource = "mock"
    /\ CommittedMock
    /\ lastEvent.outcome.failed = Feeds
    /\ started = 2
    /\ Len(effects) = 1
    /\ inflight = {}

C7_Original ==
    \A c, d \in inflight : c.effect = d.effect => c = d

(* C8 as claimed: a cycle starts only when the view mounts, the model       *)
(* selection changes or a timer ticks, and the poller is re-created only    *)
(* when the view mounts or the model selection changes; no commit does      *)
(* either.                                                                  *)
C8_Original ==
    [][/\ started' # started => lastEvent'.kind \in {"mount", "select", "tick"}
       /\ Len(effects') # Len(effects) => lastEvent'.kind \in {"mount", "select"}]_vars

(* C9: whenever a polling timer is armed its period is the one the policy   *)
(* table gives for the current state, 5 minutes in LIVE and 15 minutes in   *)
(* FALLBACK, and the timer whose tick was the last step has that period.    *)
C9_PeriodFollowsState ==
    LET policy == IF dataSource = "live" THEN 5 ELSE 15
    IN  /\ \A e \in DOMAIN effects :
              effects[e].timerArmed => effects[e].intervalMs = policy
        /\ lastEvent.kind = "tick" => effects[lastEvent.effect].intervalMs = policy

\* A tick in LIVE after the state had been FALLBACK.
C9_Witness ==
    /\ lastEvent.kind = "tick"
    /\ dataSource = "live"
    /\ effects[1].intervalMs = MockIntervalMin

(* C10: once the view is unmounted nothing is written and no cycle starts:  *)
(* performance, signals, trades, positions, the LIVE/FALLBACK state and     *)
(* the loading flag keep their values, whatever settles afterwards.         *)
C10_NoWriteAfterUnmount ==
    [][phase = "unmounted" =>
          /\ UNCHANGED <<performance, signals, trades, positions, dataSource, loading>>
          /\ started' = started]_vars

\* A cycle settled successfully after the unmount, while loading was still shown.
C10_Witness ==
    /\ phase = "unmounted"
    /\ lastEvent.kind = "discard"
    /\ lastEvent.outcome.error = "none"
    /\ loading

----------------------------------------------------------------------------
(* Vocabulary of the gateway properties *)

\* The store holds a dataset the view can render: every collection is a list
\* of records (the baseline's or a response's) and every metric is defined.
Renderable ==
    /\ \A v \in {signals, trades, positions} : v.src \in {"mock", "live"}
    /\ performance.equityCurve.src \in {"mock", "live"}
    /\ \A k \in MetricKeys : performance.metrics[k].src \in {"mock", "live"}

\* A body of the settled cycle did not have the expected shape: json() rejected
\* it, or a collection is missing from it or is not a list.
BodyMalformed(o) ==
    \/ o.error = "parse"
    \/ \E f \in {"signals", "trades", "positions"} : o.body[f] \in MalformedShapes

(* C11 as claimed: a cycle of the active poller that settles ends with one  *)
(* commit, a live commit when nothing failed and a baseline commit when a   *)
(* retrieval was rejected, had a non-success status or did not parse; the   *)
(* cycle is then no longer in flight and the store holds a complete         *)
(* renderable dataset.                                                      *)
C11_Original ==
    Committed =>
        /\ \A c \in inflight : c.id # lastEvent.cycle
        /\ lastEvent.outcome.failed = {} => dataSource = "live"
        /\ lastEvent.outcome.failed # {} => (dataSource = "mock" /\ IsBaseline(selectedModel))
        /\ Renderable

(* C12 as claimed: a cycle in which a retrieval completes with a success    *)
(* status and a body that does not parse, or that parses to JSON in which   *)
(* the expected collection is missing or is not a list, is committed as a   *)
(* failure: the state is FALLBACK and the store is the baseline.            *)
C12_Original ==
    (Committed /\ BodyMalformed(lastEvent.outcome)) =>
        (dataSource = "mock" /\ IsBaseline(selectedModel))

----------------------------------------------------------------------------
(* C13: only the commit of a refresh cycle changes the LIVE/FALLBACK state  *)
(* and only the model-selection control changes the selected model:         *)
(* selecting a model leaves the state unchanged, a commit leaves the        *)
(* selected model unchanged, and the Live/Paper toggle and the tab switch   *)
(* leave the state, the selected model, the four collections and the        *)
(* running poller (its closures, its suspended cycles, loading) unchanged.  *)
C13_Frame ==
    [][/\ dataSource' # dataSource => lastEvent'.kind = "commit"
       /\ selectedModel' # selectedModel => lastEvent'.kind = "select"
       /\ lastEvent'.kind = "select" => dataSource' = dataSource
       /\ lastEvent'.kind = "commit" => selectedModel' = selectedModel
       /\ lastEvent'.kind \in {"toggle", "tab"} =>
              UNCHANGED <<dataSource, selectedModel, store, effects, inflight,
                          started, loading>>]_vars

\* The toggle was switched while LIVE, with another model selected, another
\* tab open and a cycle of the running poller suspended.
C13_Witness ==
    /\ lastEvent.kind = "toggle"
    /\ isLive
    /\ activeTab = "trades"
    /\ dataSource = "live"
    /\ selectedModel = "energy"
    /\ inflight # {}

----------------------------------------------------------------------------
(* Vocabulary of the normalizer properties *)

\* The record has been committed, has been rendered, has been normalized twice.
IsCommitted == step \in {"committed", "rendered", "normalizedAgain"}
IsRendered == step \in {"rendered", "normalizedAgain"}
IsNormalizedAgain == step = "normalizedAgain"

----------------------------------------------------------------------------
----------------------------------------------------------------------------
(* C15 as stated: the normalizers never throw; for every input record,      *)
(* one whose side/action/type value is not a string included, they return   *)
(* a record.                                                                *)
C15_Original ==
    IsRendered => ~row.thrown

----------------------------------------------------------------------------
(* C16 as stated: idempotence; normalizing the record a normalizer returned *)
(* returns a record equal to it in every field.                             *)
C16_Original ==
    IsNormalizedAgain =>
        /\ ~renormalized.thrown
        /\ renormalized.value = row.value

----------------------------------------------------------------------------
(* The logical fields of each kind of record: the canonical key and the     *)
(* keys a raw record may carry the field under.                             *)

Field(f, aliases) == [field |-> f, aliases |-> aliases]

AliasGroups(k) ==
    CASE k = "position" ->
            {Field("symbol", {"symbol", "ticker", "asset"}),
             Field("quantity", {"quantity", "qty", "shares"}),
             Field("averagePrice",
                   {"averagePrice", "avg_price", "avgEntryPrice", "avg_entry_price"}),
             Field("marketPrice",
                   {"marketPrice", "current_price", "currentPrice", "market_price"}),
             Field("pnl", {"unrealizedPnl", "unrealized_pl", "pnl"}),
             Field("pnlPercent",
                   {"unrealizedPnlPercent", "unrealized_plpc", "unrealized_pl_percent",
                    "pnl_percent"})}
      [] k = "trade" ->
            {Field("id", {"id", "trade_id", "order_id"}),
             Field("timestamp", {"timestamp", "filled_at", "created_at"}),
             Field("symbol", {"symbol", "ticker"}),
             Field("side", {"side", "action", "type"}),
             Field("quantity", {"quantity", "qty", "shares"}),
             Field("price", {"price", "fill_price", "filled_avg_price"}),
             Field("pnl", {"pnl", "profit", "realized_pl"}),
             Field("model", {"model", "strategy"})}
      [] k = "signal" ->
            {Field("symbol", {"symbol", "ticker"}),
             Field("action", {"action", "side"}),
             Field("confidence", {"confidence", "score", "signal_strength"}),
             Field("positionSize", {"positionSize", "weight", "position_size"}),
             Field("thesis", {"thesis", "reason", "notes"})}

\* The documented default of a field: 0 for a numeric field, HOLD for
\* side/action, the placeholder for symbol.
DocumentedDefault(f) ==
    CASE f = "symbol" -> placeholder
      [] f \in {"side", "action"} -> Str("HOLD")
      [] OTHER -> Num(0)

\* The fields the defaults are documented for.
DefaultedFields ==
    {"symbol", "side", "action", "quantity", "averagePrice", "marketPrice", "price",
     "pnl", "pnlPercent", "confidence", "positionSize"}

\* The record carries field g under none of its aliases; under alias a only.
Lacks(r, g) == \A a \in g.aliases : r[a] = Undefined
CarriesOnlyUnder(r, g, a) ==
    /\ a \in g.aliases
    /\ r[a] # Undefined
    /\ \A c \in g.aliases \ {a} : r[c] = Undefined

----------------------------------------------------------------------------
(* C17 as stated: a raw record that carries none of the aliases of a field  *)
(* normalizes to the documented default of that field (0, HOLD, the         *)
(* placeholder), whatever its other fields hold.                            *)
C17_Original ==
    IsRendered =>
        \A g \in AliasGroups(kind) :
            (g.field \in DefaultedFields /\ Lacks(record, g)) =>
                /\ ~row.thrown
                /\ row.value[g.field] = DocumentedDefault(g.field)

----------------------------------------------------------------------------
(* C18: alias equivalence.  For every logical field and every two of its    *)
(* aliases a and b, a record carrying a value under a only and the record   *)
(* carrying that value under b instead (all other fields alike) are         *)
(* normalized alike: the normalizer returns for both, with the same         *)
(* canonical value of the field, or it throws for both.                     *)
C18_AliasEquivalence ==
    IsRendered =>
        \A g \in AliasGroups(kind) : \A a, b \in g.aliases :
            CarriesOnlyUnder(record, g, a) =>
                LET other == normalize(kind, [record EXCEPT ![a] = Undefined, ![b] = record[a]])
                IN  /\ other.thrown = row.thrown
                    /\ ~row.thrown => other.value[g.field] = row.value[g.field]

\* A signal with confidence 82 under score and its action under side is
\* rendered with confidence 0.82 and action BUY.
C18_Witness ==
    /\ kind = "signal"
    /\ step = "rendered"
    /\ record["score"] = Num(820000)
    /\ record["side"] = Str("buy")
    /\ ~row.thrown
    /\ row.value["confidence"] = Num(8200)
    /\ row.value["action"] = Str("BUY")

----------------------------------------------------------------------------
(* C19 as stated: the scale rule.  A percentage-like raw value x whose      *)
(* magnitude exceeds 1 is taken as whole percent (P&L percent keeps x,      *)
(* confidence and position size become x / 100); one with |x| <= 1,         *)
(* negative values included, as a fraction (P&L percent becomes x * 100,    *)
(* confidence and position size keep x).  Stated of the records the         *)
(* normalizer returns for.                                                  *)
C19_Original ==
    (IsRendered /\ ~row.thrown) =>
        \A g \in AliasGroups(kind) : \A a \in g.aliases :
            (/\ g.field \in {"pnlPercent", "confidence", "positionSize"}
             /\ CarriesOnlyUnder(record, g, a)
             /\ record[a].t = "number") =>
                LET x == record[a]
                    wholePercent == x.n > one \/ x.n < -one
                IN  row.value[g.field] =
                        IF g.field = "pnlPercent"
                        THEN (IF wholePercent THEN x ELSE Num(x.n * 100))
                        ELSE (IF wholePercent THEN Num(x.n \div 100) ELSE x)

----------------------------------------------------------------------------
(* C20 as stated: whatever scale or sign the raw confidence and position    *)
(* size have, the normalized confidence and positionSize of a signal are    *)
(* fractions in the closed range [0, 1].  Stated of the signals the         *)
(* normalizer returns for.                                                  *)
C20_Original ==
    (IsRendered /\ kind = "signal" /\ ~row.thrown) =>
        \A f \in {"confidence", "positionSize"} :
            /\ row.value[f].t = "number"
            /\ row.value[f].n >= 0
            /\ row.value[f].n <= one

----------------------------------------------------------------------------
\* The numeric fields of the canonical record of each kind.
NumericFields(k) ==
    CASE k = "position" -> {"quantity", "averagePrice", "marketPrice", "pnl", "pnlPercent"}
      [] k = "trade" -> {"quantity", "price", "pnl"}
      [] k = "signal" -> {"confidence", "positionSize"}

(* C21 as stated: every numeric field of every normalized position, trade   *)
(* and signal is a finite number; a raw value that is no number is replaced *)
(* by 0 and never appears as NaN or null.  Stated of the records the        *)
(* normalizer returns for.                                                  *)
C21_Original ==
    (IsRendered /\ ~row.thrown) =>
        \A f \in NumericFields(kind) : row.value[f].t = "number"

----------------------------------------------------------------------------
\* The aliases of the identifier of a trade.
IdField == Field("id", {"id", "trade_id", "order_id"})

(* C22 as stated: a raw trade that carries none of id, trade_id and         *)
(* order_id gets an identifier synthesized from the values its canonical    *)
(* symbol and timestamp fields hold, whichever aliases the raw record used  *)
(* for them; a trade with an explicit id alias gets that value.             *)
C22_Original ==
    (IsRendered /\ kind = "trade" /\ ~row.thrown) =>
        /\ Lacks(record, IdField) =>
              row.value["id"] = Template(row.value["symbol"], row.value["timestamp"])
        /\ \A a \in IdField.aliases :
              (CarriesOnlyUnder(record, IdField, a) /\ record[a] # Null) =>
                  row.value["id"] = record[a]

----------------------------------------------------------------------------
\* The side of a trade and the action of a signal.
SideField(k) ==
    IF k = "trade" THEN Field("side", {"side", "action", "type"})
    ELSE Field("action", {"action", "side"})

\* The upper-case form of each string a raw record of the model carries.
Uppercased ==
    [s \in {"buy", "Sell", "hold", "short", "AAPL"} |->
        CASE s = "buy" -> "BUY"
          [] s = "Sell" -> "SELL"
          [] s = "hold" -> "HOLD"
          [] s = "short" -> "SHORT"
          [] s = "AAPL" -> "AAPL"]

(* C23: for every raw trade side and signal action given as a string, under *)
(* whichever alias, the canonical value is that string in upper case: the   *)
(* case variants of buy, sell and hold give BUY, SELL and HOLD, any other   *)
(* token passes through in upper case; a record with no side/action alias   *)
(* gets HOLD.                                                               *)
C23_SideUppercased ==
    (IsRendered /\ kind \in {"trade", "signal"}) =>
        LET g == SideField(kind)
        IN  /\ Lacks(record, g) =>
                (~row.thrown /\ row.value[g.field] = Str("HOLD"))
            /\ \A a \in g.aliases :
                (CarriesOnlyUnder(record, g, a) /\ record[a].t = "string") =>
                    (~row.thrown /\ row.value[g.field] = Str(Uppercased[record[a].s]))

\* A trade whose side arrived as Sell under type and whose quantity arrived
\* under qty is rendered with side SELL.
C23_Witness ==
    /\ kind = "trade"
    /\ step = "rendered"
    /\ record["type"] = Str("Sell")
    /\ record["qty"] = Num(1000000)
    /\ ~row.thrown
    /\ row.value["side"] = Str("SELL")

----------------------------------------------------------------------------
(* C24: in every reachable state the metrics record of the store is         *)
(* complete: it has every key of the baseline metrics record, each with a   *)
(* value (of the baseline or of a response), whether the metrics object of  *)
(* the last live payload was absent, partial or full.                       *)
C24_MetricsComplete ==
    /\ DOMAIN performance.metrics = DOMAIN mockPerformance.metrics
    /\ \A k \in DOMAIN mockPerformance.metrics : performance.metrics[k] # Absent

\* A live commit whose performance body had a partial metrics object and no
\* top-level lastUpdated: the store has the live portfolioValue and the
\* baseline lastUpdated.
C24_Witness ==
    /\ CommittedLive
    /\ lastEvent.outcome.body.metrics = "partial"
    /\ ~lastEvent.outcome.body.lastUpdated
    /\ performance.metrics["portfolioValue"] = Live(lastEvent.cycle, "none")
    /\ performance.metrics["lastUpdated"] = Mock("none")

----------------------------------------------------------------------------
\* The value the record carries for field f, which it carries under one alias.
Carried(r, k, f) ==
    LET g == CHOOSE h \in AliasGroups(k) : h.field = f
    IN  r[CHOOSE a \in g.aliases : CarriesOnlyUnder(r, g, a)]

\* The record carries field f under exactly one of its aliases.
CarriesOnce(r, k, f) ==
    \E g \in AliasGroups(k) : g.field = f /\ \E a \in g.aliases : CarriesOnlyUnder(r, g, a)

\* The record carries no alias of field f.
LacksField(r, k, f) == \A g \in AliasGroups(k) : g.field = f => Lacks(r, g)

(* C25 as stated: a raw position that carries symbol, quantity and both     *)
(* prices under any aliases, and no P&L and no P&L-percent alias,           *)
(* normalizes to those same symbol, quantity, averagePrice and marketPrice  *)
(* values with pnl = 0 and pnlPercent = 0.                                  *)
C25_Original ==
    (/\ IsRendered
     /\ kind = "position"
     /\ \A f \in {"symbol", "quantity", "averagePrice", "marketPrice"} :
            CarriesOnce(record, kind, f)
     /\ Carried(record, kind, "symbol").t = "string"
     /\ \A f \in {"quantity", "averagePrice", "marketPrice"} :
            Carried(record, kind, f).t = "number"
     /\ LacksField(record, kind, "pnl")
     /\ LacksField(record, kind, "pnlPercent")) =>
        /\ ~row.thrown
        /\ row.value =
              Object(PositionKeys,
                  [symbol |-> Carried(record, kind, "symbol"),
                   quantity |-> Carried(record, kind, "quantity"),
                   averagePrice |-> Carried(record, kind, "averagePrice"),
                   marketPrice |-> Carried(record, kind, "marketPrice"),
                   pnl |-> Num(0),
                   pnlPercent |-> Num(0)])

----------------------------------------------------------------------------
(* C26 as stated: cycles of one poller commit in the order in which they    *)
(* started; a cycle never commits after a cycle that started later has      *)
(* committed.  A cycle commits only in the closure of the poller that is    *)
(* active, and every cycle started after it belongs to that poller too and, *)
(* once settled, has committed: so when a cycle commits, every cycle        *)
(* started after it is still in flight.                                     *)
C26_Original ==
    [][lastEvent'.kind = "commit" =>
          \A i \in (lastEvent'.cycle + 1)..started : \E d \in inflight : d.id = i]_vars

----------------------------------------------------------------------------
(* C27: in every reachable state the signals collection belongs to the      *)
(* selected model: it is the baseline signals of the selected model or the  *)
(* value of a signals response that was requested with the selected model;  *)
(* signals of a model that is no longer selected are never in the store.    *)
C27_SignalsOfSelectedModel ==
    \/ signals = mockSignals(selectedModel)
    \/ /\ signals.src # "mock"
       /\ signals.cycle \in 1..started
       /\ signals.model = selectedModel

\* After a switch to the other model its live signals are in the store, and
\* the cycle of the first model, settling without an error, was discarded.
C27_Witness ==
    /\ lastEvent.kind = "discard"
    /\ lastEvent.cycle = 1
    /\ lastEvent.outcome.error = "none"
    /\ selectedModel = "energy"
    /\ dataSource = "live"
    /\ signals = Live(2, "energy")

----------------------------------------------------------------------------
\* The cycles of the active poller that are in flight.
ActiveInflight == {c \in inflight : isMounted(c.effect)}

(* C28 as stated: while the view is mounted, whenever the loading flag is   *)
(* false no cycle of the active poller is in flight; no cycle that settles, *)
(* abandoned or not, clears the flag while another cycle of the active      *)
(* poller is still in flight.                                               *)
C28_Original ==
    (phase = "mounted" /\ ~loading) => ActiveInflight = {}

----------------------------------------------------------------------------
\* The cycle that settled last, if the last step settled one, met no error.
AllSucceed == lastEvent.kind \in {"commit", "discard"} => lastEvent.outcome.error = "none"

(* C29 as stated: if the view stays mounted, timer ticks fire fairly, every *)
(* retrieval eventually settles and from some point on all four retrievals  *)
(* of every cycle succeed, then the state eventually becomes LIVE and stays *)
(* LIVE from then on.                                                       *)
C29_Original ==
    ([](phase # "unmounted") /\ <>[]AllSucceed) => <>[](dataSource = "live")

(* C29, amended: if moreover the model selection changes only finitely      *)
(* often (a change of model abandons the cycles in flight, and a selection  *)
(* that keeps changing before any cycle settles keeps every cycle from      *)
(* committing), then the state eventually becomes LIVE and stays LIVE.      *)
C29_RecoveryOnceSelectionRests ==
    (/\ [](phase # "unmounted")
     /\ <>[]AllSucceed
     /\ <>[](lastEvent.kind # "select")) => <>[](dataSource = "live")

\* A cycle of the model selected second has committed live data while a
\* later cycle of its poller is in flight.
C29_Witness ==
    /\ CommittedLive
    /\ dataSource = "live"
    /\ selectedModel = "energy"
    /\ started = 0
    /\ Cardinality(ActiveInflight) = 1

====
